---- MODULE Spec2Model ----
(***************************************************************************)
(* gateway-failover: a dual-uplink default-route failover controller.      *)
(*                                                                         *)
(* The model follows main.go: the startup sequence of main (flag checks,   *)
(* interface lookup, gateway resolution), the signal goroutine, the        *)
(* ticker-driven select loop, and one check cycle (doCheckOnce) with its   *)
(* route inspection, ping probe, decision and delete-then-add switch.      *)
(* The kernel routing table, the interface registry, the ping process, the *)
(* ticker and the lease sources are the environment; their outcomes are    *)
(* drawn nondeterministically.                                             *)
(*                                                                         *)
(* The variables currentGateway, probe, err, decision, switched, calls,    *)
(* probed, cancelledAtStart and abandoned describe the doCheckOnce call in *)
(* progress; they are blank while the loop waits in its select.  abandoned *)
(* marks a probe that ended while ctx was cancelled.  prev keeps, under    *)
(* HistorySpec, what the cycle before observed and whether it changed      *)
(* routes.  degraded records that a switch of this process removed the     *)
(* last default route and then failed to install the new one, and that     *)
(* none was installed since.  resolver is used by ResolverSpec only, which *)
(* applies the Gateway Resolver's functions to drawn inputs.               *)
(***************************************************************************)
EXTENDS Integers, Sequences, FiniteSets, TLC

VARIABLES
    pc,               \* control point of the main goroutine
    flagDryRun,       \* -dry-run
    flagPrimaryInterface, flagBackupInterface,   \* -primary, -backup
    primary, backup,  \* *net.Interface values found at startup (or NoIface)
    primaryGw, backupGw,   \* netip.Addr values resolved at startup (or NoAddr)
    ctxDone,          \* ctx has been cancelled
    sigCh,            \* number of signals buffered in sigCh (capacity 1)
    sigPc,            \* the signal goroutine: "wait" or "done"
    tickC,            \* number of ticks buffered in ticker.C (capacity 1)
    routes,           \* kernel: the default routes, as <<LinkIndex, Gw>>
    currentGateway,   \* doCheckOnce: interface name the inspector returned
    probe,            \* doCheckOnce: "none", "ok" or "fail" (cmd.Run result)
    err,              \* doCheckOnce: the error it returns ("nil" if none)
    decision,         \* the branch doCheckOnce logged in this cycle
    switched,         \* switchDefaultRoute invocations of this cycle
    calls,            \* netlink.RouteDel / RouteAdd calls of this cycle
    probed,           \* interface names ping was started on in this cycle
    cancelledAtStart, \* whether ctx was already cancelled when it began
    abandoned,        \* whether cmd.Run failed because ctx was cancelled
    prev,             \* what the previous cycle observed and did (or NoCycle)
    degraded,         \* a failed switch left the table without a default route
    logged,           \* the last line main logged
    resolver          \* ResolverSpec: one call of the Gateway Resolver

vars == <<pc, flagDryRun, flagPrimaryInterface, flagBackupInterface, primary, backup,
          primaryGw, backupGw, ctxDone, sigCh, sigPc, tickC, routes,
          currentGateway, probe, err, decision, switched, calls, probed,
          cancelledAtStart, abandoned, prev, degraded, logged, resolver>>

config == <<flagDryRun, flagPrimaryInterface, flagBackupInterface>>
resolved == <<primary, backup, primaryGw, backupGw>>
cycle == <<currentGateway, probe, err, decision, switched, calls, probed,
           cancelledAtStart, abandoned>>
signals == <<ctxDone, sigCh, sigPc>>

(***************************************************************************)
(* The environment: interfaces, addresses, the kernel routing table.       *)
(***************************************************************************)

\* Largest number of default routes the kernel table holds in the model.
MaxRoutes == 2

\* Most lines of a lease file or of a dhcpcd output.
MaxLines == 3

\* No earlier cycle, or one that ended at the inspector's error.
\* resolver while the program itself runs.
NoResolution == [step |-> "none"]

NoCycle == [cur |-> "", probe |-> "none", mutated |-> FALSE]

NoIface == [Name |-> "", Index |-> 0]
NoAddr == <<>>

\* The interfaces of the host: two uplinks and one unrelated interface.
Interfaces ==
    { [Name |-> "eth0", Index |-> 2],
      [Name |-> "wwan0", Index |-> 3],
      [Name |-> "tun0", Index |-> 4] }

\* Addresses as netip.Addr values (AsSlice gives the same four bytes).
Addrs == { <<10, 0, 0, 1>>, <<10, 0, 1, 1>> }

\* The default routes other writers (DHCP clients, an operator) install:
\* one per interface, each through that interface's own gateway.
AllRoutes ==
    { <<2, <<10, 0, 0, 1>> >>, <<3, <<10, 0, 1, 1>> >>, <<4, <<10, 0, 2, 1>> >> }

Tables == { t \in SUBSET AllRoutes : Cardinality(t) <= MaxRoutes }

\* net.InterfaceByName: the interface of that name, if the host has one.
InterfaceByName(name) ==
    IF \E i \in Interfaces : i.Name = name
    THEN [ok |-> TRUE, iface |-> CHOOSE i \in Interfaces : i.Name = name]
    ELSE [ok |-> FALSE, iface |-> NoIface]

\* net.InterfaceByIndex, for an index that still maps to an interface.
InterfaceByIndex(index) == CHOOSE i \in Interfaces : i.Index = index

\* netip.ParseAddr on the address strings the model feeds it.
ParseAddr(val) ==
    CASE val = "10.0.0.1" -> [ok |-> TRUE, addr |-> <<10, 0, 0, 1>>]
      [] val = "10.0.1.1" -> [ok |-> TRUE, addr |-> <<10, 0, 1, 1>>]
      [] OTHER -> [ok |-> FALSE, addr |-> NoAddr]

\* netip.ParseAddr as a backend's return value.
ParseResult(val) ==
    [ok |-> ParseAddr(val).ok, addr |-> ParseAddr(val).addr,
     err |-> IF ParseAddr(val).ok THEN "nil" ELSE "ParseAddr"]

\* The explicit gateway strings tried for -primary-gw and -backup-gw.
GatewayFlagValues == { "", "bogus", "10.0.0.1", "10.0.1.1" }

\* What an autodetection backend can produce: an error or an address.
BackendResults ==
    { [ok |-> FALSE, addr |-> NoAddr] } \cup { [ok |-> TRUE, addr |-> a] : a \in Addrs }

(***************************************************************************)
(* Gateway resolution (startup).                                           *)
(***************************************************************************)

\* A line of text is a sequence of pieces, each a string without '#' and
\* '=' or one of these two characters; the line is their concatenation.
RECURSIVE Join(_)
Join(pieces) == IF pieces = <<>> THEN "" ELSE Head(pieces) \o Join(Tail(pieces))

\* strings.HasPrefix(line, c), for a one-character c.
HasPrefix(line, c) == line # <<>> /\ Head(line) = c

\* Position of the first sep in line at or after i, or 0.
RECURSIVE Index(_, _, _)
Index(line, sep, i) ==
    IF i > Len(line) THEN 0
    ELSE IF line[i] = sep THEN i
    ELSE Index(line, sep, i + 1)

\* strings.Cut(line, sep), for a one-character sep.
Cut(line, sep) ==
    LET i == Index(line, sep, 1)
    IN IF i = 0
       THEN [before |-> Join(line), after |-> "", found |-> FALSE]
       ELSE [before |-> Join(SubSeq(line, 1, i - 1)),
             after |-> Join(SubSeq(line, i + 1, Len(line))),
             found |-> TRUE]

\* The lines a lease file or a dhcpcd -U output is made of in the model.
TextLines ==
    { <<"#", "ROUTER", "=", "10.0.0.1">>,
      <<"ROUTER">>,
      <<"DNS", "=", "10.0.1.1">>,
      <<"ROUTER", "=", "10.0.0.1">>,
      <<"ROUTER", "=", "10.0.1.1">>,
      <<"ROUTER", "=", "bogus">>,
      <<"ROUTER", "S", "=", "10.0.0.1">>,
      <<"routers", "=", "10.0.1.1">> }

RECURSIVE Texts(_)
Texts(n) ==
    IF n = 0 THEN { <<>> }
    ELSE Texts(n - 1) \cup { Append(t, l) : t \in { u \in Texts(n - 1) : Len(u) = n - 1 }, l \in TextLines }

\* What a backend reads: a lease file that opens, or a dhcpcd run that
\* succeeds, gives lines; otherwise the source is unreadable.
Sources ==
    { [readable |-> FALSE, lines |-> <<>>] }
        \cup { [readable |-> TRUE, lines |-> t] : t \in Texts(MaxLines) }

\* Faulty variant of ScanLease: the last ROUTER line wins.
RECURSIVE ScanLeaseLast(_)
ScanLeaseLast(lines) ==
    IF lines = <<>>
    THEN [ok |-> FALSE, addr |-> NoAddr, err |-> "ROUTER not found in lease file"]
    ELSE LET line == lines[Len(lines)]
             rest == SubSeq(lines, 1, Len(lines) - 1)
             kv == Cut(line, "=")
         IN IF HasPrefix(line, "#") THEN ScanLeaseLast(rest)
            ELSE IF ~kv.found THEN ScanLeaseLast(rest)
            ELSE IF kv.before = "ROUTER" THEN ParseResult(kv.after)
            ELSE ScanLeaseLast(rest)

\* getGatewaySystemdNetworkd 223-239: the scanner loop over the lines left.
RECURSIVE ScanLease(_)
ScanLease(lines) ==
    IF lines = <<>>
    THEN [ok |-> FALSE, addr |-> NoAddr, err |-> "ROUTER not found in lease file"]
    ELSE LET line == Head(lines)
             kv == Cut(line, "=")
         IN IF HasPrefix(line, "#") THEN ScanLease(Tail(lines))
            ELSE IF ~kv.found THEN ScanLease(Tail(lines))
            ELSE IF kv.before = "ROUTER" THEN ParseResult(kv.after)
            ELSE ScanLease(Tail(lines))

\* Faulty variant of getGatewaySystemdNetworkd.
getGatewaySystemdNetworkdLast(lease) ==
    IF ~lease.readable
    THEN [ok |-> FALSE, addr |-> NoAddr, err |-> "open"]
    ELSE ScanLeaseLast(lease.lines)

\* getGatewaySystemdNetworkd: the lease file of the interface, if it opens.
getGatewaySystemdNetworkd(lease) ==
    IF ~lease.readable
    THEN [ok |-> FALSE, addr |-> NoAddr, err |-> "open"]
    ELSE ScanLease(lease.lines)

\* getGatewayDhcpcd 249-258: the scanner loop over the lines left.
RECURSIVE ScanDhcpcd(_)
ScanDhcpcd(lines) ==
    IF lines = <<>>
    THEN [ok |-> FALSE, addr |-> NoAddr, err |-> "routers not found in dhcpcd output"]
    ELSE LET kv == Cut(Head(lines), "=")
         IN IF ~kv.found THEN ScanDhcpcd(Tail(lines))
            ELSE IF kv.before = "routers" THEN ParseResult(kv.after)
            ELSE ScanDhcpcd(Tail(lines))

\* getGatewayDhcpcd: the output of dhcpcd -U, if the command succeeds.
getGatewayDhcpcd(out) ==
    IF ~out.readable
    THEN [ok |-> FALSE, addr |-> NoAddr, err |-> "exec"]
    ELSE ScanDhcpcd(out.lines)

\* What the backend getGateway selects returns when it reads source.
Detect(networkd, dhcpcd, source) ==
    LET r == IF networkd THEN getGatewaySystemdNetworkd(source)
             ELSE IF dhcpcd THEN getGatewayDhcpcd(source)
             ELSE [ok |-> FALSE, addr |-> NoAddr]
    IN [ok |-> r.ok, addr |-> r.addr]

\* getGateway: dispatch to the selected backend; detected is what that
\* backend returns for the interface.
getGateway(networkd, dhcpcd, detected) ==
    IF networkd
    THEN [ok |-> detected.ok, addr |-> detected.addr, backend |-> "systemd-networkd"]
    ELSE IF dhcpcd
    THEN [ok |-> detected.ok, addr |-> detected.addr, backend |-> "dhcpcd"]
    ELSE [ok |-> FALSE, addr |-> NoAddr, backend |-> "none"]

\* Faulty variant of parseOrGetGateway: autodetection is tried first and
\* the explicit value only when it fails.
parseOrGetGatewayDetectFirst(val, networkd, dhcpcd, detected) ==
    LET g == getGateway(networkd, dhcpcd, detected)
    IN IF g.ok
       THEN [ok |-> TRUE, addr |-> g.addr, autodetect |-> TRUE, backend |-> g.backend]
       ELSE IF val # "" /\ ParseAddr(val).ok
       THEN [ok |-> TRUE, addr |-> ParseAddr(val).addr,
             autodetect |-> TRUE, backend |-> g.backend]
       ELSE [ok |-> FALSE, addr |-> NoAddr, autodetect |-> TRUE, backend |-> g.backend]

\* parseOrGetGateway: the explicit value if it parses, else autodetection.
\* autodetect tells whether getGateway was called, backend which backend
\* it called.
parseOrGetGateway(val, networkd, dhcpcd, detected) ==
    IF val # "" /\ ParseAddr(val).ok
    THEN [ok |-> TRUE, addr |-> ParseAddr(val).addr,
          autodetect |-> FALSE, backend |-> "none"]
    ELSE LET g == getGateway(networkd, dhcpcd, detected)
         IN [ok |-> g.ok, addr |-> g.addr, autodetect |-> TRUE, backend |-> g.backend]

(***************************************************************************)
(* Initial state: the flags as parsed, nothing resolved, any routing table.*)
(* -primary and -backup are empty, name an interface of the host, or name  *)
(* none; when both are found they are two different interfaces (the two    *)
(* uplinks of the data model).                                             *)
(***************************************************************************)

Init ==
    /\ pc = "start"
    /\ flagDryRun \in BOOLEAN
    /\ flagPrimaryInterface \in {"", "eth0", "eth9"}
    /\ flagBackupInterface \in {"", "wwan0", "wwan9"}
    /\ primary = NoIface
    /\ backup = NoIface
    /\ primaryGw = NoAddr
    /\ backupGw = NoAddr
    /\ ctxDone = FALSE
    /\ sigCh = 0
    /\ sigPc = "none"
    /\ tickC = 0
    /\ routes \in Tables
    /\ currentGateway = ""
    /\ probe = "none"
    /\ err = "nil"
    /\ decision = "none"
    /\ switched = <<>>
    /\ calls = <<>>
    /\ probed = <<>>
    /\ degraded = FALSE
    /\ cancelledAtStart = FALSE
    /\ abandoned = FALSE
    /\ prev = NoCycle
    /\ logged = ""
    /\ resolver = NoResolution

(***************************************************************************)
(* Startup: main, lines 41-86.  log.Fatalf ends the process.               *)
(***************************************************************************)

\* Faulty variant of Fatal: the error is logged and main goes on to its
\* next step.
LogAndContinue(msg) ==
    /\ pc' = CASE pc = "start" -> "lookupPrimary"
               [] pc = "lookupPrimary" -> "lookupBackup"
               [] pc = "lookupBackup" -> "resolve"
               [] OTHER -> "setup"
    /\ logged' = msg

Fatal(msg) ==
    /\ pc' = "fatal"
    /\ logged' = msg

\* main 44-48: both interface names must be given.
CheckFlags ==
    /\ pc = "start"
    /\ IF flagPrimaryInterface = ""
       THEN Fatal("no primary interface provided")
       ELSE IF flagBackupInterface = ""
       THEN Fatal("no backup interface provided")
       ELSE pc' = "lookupPrimary" /\ UNCHANGED logged
    /\ UNCHANGED <<config, resolver, resolved, signals, tickC, routes, cycle, degraded, prev>>

\* main 50-53
LookupPrimary ==
    /\ pc = "lookupPrimary"
    /\ LET r == InterfaceByName(flagPrimaryInterface)
       IN IF r.ok
          THEN primary' = r.iface /\ pc' = "lookupBackup" /\ UNCHANGED logged
          ELSE Fatal("error getting primary interface") /\ UNCHANGED primary
    /\ UNCHANGED <<config, resolver, backup, primaryGw, backupGw, signals, tickC, routes, cycle, degraded, prev>>

\* main 55-58
LookupBackup ==
    /\ pc = "lookupBackup"
    /\ LET r == InterfaceByName(flagBackupInterface)
       IN IF r.ok
          THEN backup' = r.iface /\ pc' = "resolve" /\ UNCHANGED logged
          ELSE Fatal("error getting backup interface") /\ UNCHANGED backup
    /\ UNCHANGED <<config, resolver, primary, primaryGw, backupGw, signals, tickC, routes, cycle, degraded, prev>>

\* main 63-73: both gateways are resolved.  The gateway flags and the
\* backend flags are read here and nowhere later; pval and bval are
\* *flagPrimaryGateway and *flagBackupGateway, pdet and bdet what the
\* selected backend finds for each interface.
ResolveGateways ==
    /\ pc = "resolve"
    /\ \E pval \in GatewayFlagValues, bval \in GatewayFlagValues,
          networkd \in BOOLEAN, dhcpcd \in BOOLEAN,
          pdet \in BackendResults, bdet \in BackendResults :
          LET p == parseOrGetGateway(pval, networkd, dhcpcd, pdet)
              b == parseOrGetGateway(bval, networkd, dhcpcd, bdet)
          IN IF ~p.ok
             THEN Fatal("error detecting primary gateway")
                  /\ UNCHANGED <<primaryGw, backupGw>>
             ELSE IF ~b.ok
             THEN Fatal("error detecting backup gateway")
                  /\ primaryGw' = p.addr /\ UNCHANGED backupGw
             ELSE /\ primaryGw' = p.addr
                  /\ backupGw' = b.addr
                  /\ pc' = "setup"
                  /\ UNCHANGED logged
    /\ UNCHANGED <<config, resolver, primary, backup, signals, tickC, routes, cycle, degraded, prev>>

\* main 75-86: the context, the signal channel and its goroutine, the ticker.
Setup ==
    /\ pc = "setup"
    /\ pc' = "select"
    /\ sigPc' = "wait"
    /\ UNCHANGED <<config, resolver, resolved, ctxDone, sigCh, tickC, routes, cycle, degraded, prev, logged>>

(***************************************************************************)
(* The environment's steps while the process runs.                         *)
(***************************************************************************)

Running == pc \notin {"start", "lookupPrimary", "lookupBackup", "resolve", "setup", "fatal", "finished"}

\* SIGTERM or SIGINT arrives; signal.Notify drops it when sigCh is full.
Signal ==
    /\ Running
    /\ sigCh = 0
    /\ sigCh' = 1
    /\ UNCHANGED <<pc, config, resolver, resolved, ctxDone, sigPc, tickC, routes, cycle, degraded, prev, logged>>

\* Faulty variant of Cancel: the goroutine takes the signal and returns
\* without cancelling the context.
CancelForgotten ==
    /\ pc \notin {"start", "lookupPrimary", "lookupBackup", "resolve", "setup",
                  "fatal", "finished"}
    /\ sigPc = "wait"
    /\ sigCh = 1
    /\ sigCh' = 0
    /\ sigPc' = "done"
    /\ UNCHANGED <<pc, config, resolver, resolved, ctxDone, tickC, routes, cycle, degraded, prev, logged>>

\* main 80-83: the goroutine receives the signal and cancels the context.
Cancel ==
    /\ Running
    /\ sigPc = "wait"
    /\ sigCh = 1
    /\ sigCh' = 0
    /\ ctxDone' = TRUE
    /\ sigPc' = "done"
    /\ UNCHANGED <<pc, config, resolver, resolved, tickC, routes, cycle, degraded, prev, logged>>

\* The ticker fires; a tick is dropped when one is already buffered.
Tick ==
    /\ Running
    /\ tickC = 0
    /\ tickC' = 1
    /\ UNCHANGED <<pc, config, resolver, resolved, signals, routes, cycle, degraded, prev, logged>>

\* Some other writer adds or removes one default route.
ExternalChange ==
    /\ Running
    /\ \/ \E r \in routes : routes' = routes \ {r}
       \/ \E r \in AllRoutes \ routes :
             Cardinality(routes) < MaxRoutes /\ routes' = routes \cup {r}
    /\ degraded' = (degraded /\ routes' = {})
    /\ UNCHANGED <<pc, config, resolver, resolved, signals, tickC, cycle, prev, logged>>

(***************************************************************************)
(* The main loop: main, lines 88-100.                                      *)
(***************************************************************************)

\* main 91-93
SelectDone ==
    /\ pc = "select"
    /\ ctxDone
    /\ pc' = "finished"
    /\ logged' = "finished"
    /\ UNCHANGED <<config, resolver, resolved, signals, tickC, routes, cycle, degraded, prev>>

\* Faulty variant of SelectTick: a tick is also taken while ping runs, as
\* if each tick started its check without waiting for the one in flight.
SelectTickDuringProbe ==
    /\ pc \in {"select", "ping"}
    /\ tickC = 1
    /\ tickC' = 0
    /\ pc' = "inspect"
    /\ cancelledAtStart' = ctxDone
    /\ logged' = "checking for internet status"
    /\ UNCHANGED <<config, resolver, resolved, signals, routes, currentGateway, probe, err,
                   decision, switched, calls, probed, abandoned, degraded, prev>>

\* main 94-96: a tick is received and doCheckOnce is entered.
SelectTick ==
    /\ pc = "select"
    /\ tickC = 1
    /\ tickC' = 0
    /\ pc' = "inspect"
    /\ cancelledAtStart' = ctxDone
    /\ logged' = "checking for internet status"
    /\ UNCHANGED <<config, resolver, resolved, signals, routes, currentGateway, probe, err,
                   decision, switched, calls, probed, abandoned, degraded, prev>>

\* main 96-100: doCheckOnce has returned; an error is logged and the loop
\* goes back to its select.
BackToSelect ==
    /\ pc = "return"
    /\ pc' = "select"
    /\ logged' = IF err # "nil" THEN "error checking" ELSE logged
    /\ currentGateway' = ""
    /\ probe' = "none"
    /\ err' = "nil"
    /\ decision' = "none"
    /\ switched' = <<>>
    /\ calls' = <<>>
    /\ probed' = <<>>
    /\ cancelledAtStart' = FALSE
    /\ abandoned' = FALSE
    /\ UNCHANGED <<config, resolver, resolved, signals, tickC, routes, degraded>>

Return == BackToSelect /\ UNCHANGED prev

\* The same step, with the finished cycle's observation kept in prev.
ReturnObserved ==
    /\ BackToSelect
    /\ prev' = IF probe = "none"
               THEN NoCycle
               ELSE [cur |-> currentGateway, probe |-> probe, mutated |-> calls # <<>>]

(***************************************************************************)
(* Route Inspector: getDefaultRouteInterface, lines 168-185.               *)
(***************************************************************************)

\* What netlink.RouteGet(8.8.8.8) can answer for a table: an error, or the
\* one route the kernel picks among those the table holds.  With no default
\* route the answer is an error or an empty list, never a route.
RouteGetAnswers(table) ==
    { [failed |-> TRUE, got |-> <<>>] }
        \cup { [failed |-> FALSE, got |-> <<r>>] : r \in table }
        \cup (IF table = {} THEN { [failed |-> FALSE, got |-> <<>>] } ELSE {})

\* getDefaultRouteInterface, given RouteGet's answer and whether the link
\* index still maps to an interface.
getDefaultRouteInterface(answer, linkFound) ==
    IF answer.failed THEN [name |-> "", err |-> "route get"]
    ELSE IF Len(answer.got) = 0 THEN [name |-> "", err |-> "no routes"]
    ELSE IF ~linkFound THEN [name |-> "", err |-> "looking up link index"]
    ELSE [name |-> InterfaceByIndex(answer.got[1][1]).Name, err |-> "nil"]

\* Faulty variant of AfterInspect: the inspector's error is dropped.
AfterInspectIgnoringError(e) == "run"

\* doCheckOnce 110-113: where the cycle goes after the inspector returned.
AfterInspect(e) == IF e # "nil" THEN "return" ELSE "run"

Inspect ==
    /\ pc = "inspect"
    /\ \E answer \in RouteGetAnswers(routes), linkFound \in BOOLEAN :
          LET r == getDefaultRouteInterface(answer, linkFound)
          IN /\ pc' = AfterInspect(r.err)
             /\ currentGateway' = r.name
             /\ err' = r.err
    /\ UNCHANGED <<config, resolver, resolved, signals, tickC, routes, probe, decision,
                   switched, calls, probed, cancelledAtStart, abandoned, degraded, prev, logged>>

(***************************************************************************)
(* Liveness Prober: exec.CommandContext(ctx, "ping", "-I", ...), 115-119.  *)
(***************************************************************************)

\* Faulty variant of ProbeInterface: the probe goes out through the backup.
ProbeInterfaceBackup == backup.Name

\* doCheckOnce 115: the interface the probe is bound to.
ProbeInterface == primary.Name

\* cmd.Run: with ctx already cancelled no process is started and Run fails.
ProbeStart ==
    /\ pc = "run"
    /\ IF ctxDone
       THEN probe' = "fail" /\ pc' = "decide" /\ UNCHANGED probed
       ELSE probed' = Append(probed, ProbeInterface) /\ pc' = "ping" /\ UNCHANGED probe
    /\ abandoned' = ctxDone
    /\ UNCHANGED <<config, resolver, resolved, signals, tickC, routes, currentGateway, err,
                   decision, switched, calls, cancelledAtStart, degraded, prev, logged>>

\* ping exits: by itself with either status, or killed because ctx was
\* cancelled while it ran.
ProbeExit ==
    /\ pc = "ping"
    /\ \E ok \in (IF ctxDone THEN {FALSE} ELSE BOOLEAN) :
          probe' = IF ok THEN "ok" ELSE "fail"
    /\ abandoned' = ctxDone
    /\ pc' = "decide"
    /\ err' = "nil"
    /\ UNCHANGED <<config, resolver, resolved, signals, tickC, routes, currentGateway,
                   decision, switched, calls, probed, cancelledAtStart,
                   degraded, prev, logged>>

(***************************************************************************)
(* The decision: doCheckOnce, lines 119-147.                               *)
(***************************************************************************)

\* Faulty variant of Decision: a successful probe switches to the primary
\* whatever the active route is.
DecisionIgnoringRoute(probeOK, cur) ==
    IF probeOK
    THEN "backup -> primary"
    ELSE IF cur = primary.Name THEN "primary -> backup" ELSE "on backup"

\* Faulty variant of Decision: any route that is not the primary's counts as
\* the backup's.
DecisionOtherAsBackup(probeOK, cur) ==
    IF probeOK
    THEN IF cur # primary.Name THEN "backup -> primary" ELSE "on primary"
    ELSE IF cur = primary.Name THEN "primary -> backup" ELSE "on backup"

\* Faulty variant of Decision: the route seen by the cycle before is used
\* again when there was one.
DecisionSticky(probeOK, cur) ==
    LET seen == IF prev # NoCycle THEN prev.cur ELSE cur
    IN IF probeOK
       THEN IF seen = backup.Name THEN "backup -> primary" ELSE "on primary"
       ELSE IF seen = primary.Name THEN "primary -> backup" ELSE "on backup"

\* The branch taken, named by what it logs.
Decision(probeOK, cur) ==
    IF probeOK
    THEN IF cur = backup.Name THEN "backup -> primary" ELSE "on primary"
    ELSE IF cur = primary.Name THEN "primary -> backup" ELSE "on backup"

IsSwitch(d) == d \in {"backup -> primary", "primary -> backup"}

\* Faulty variant of SwitchArgs: both branches pass (backup -> primary).
SwitchArgsOneWay(d) ==
    [oldDev |-> backup, oldGw |-> backupGw, newDev |-> primary, newGw |-> primaryGw]

\* Faulty variant of SwitchArgs: each interface is paired with the other
\* uplink's gateway.
SwitchArgsCrossed(d) ==
    IF d = "backup -> primary"
    THEN [oldDev |-> backup, oldGw |-> primaryGw, newDev |-> primary, newGw |-> backupGw]
    ELSE [oldDev |-> primary, oldGw |-> backupGw, newDev |-> backup, newGw |-> primaryGw]

\* doCheckOnce 126 and 138: the arguments handed to switchDefaultRoute.
SwitchArgs(d) ==
    IF d = "backup -> primary"
    THEN [oldDev |-> backup, oldGw |-> backupGw, newDev |-> primary, newGw |-> primaryGw]
    ELSE [oldDev |-> primary, oldGw |-> primaryGw, newDev |-> backup, newGw |-> backupGw]

\* Faulty variant of CallsSwitcher: a switch the cycle before already tried
\* is not tried again.
CallsSwitcherOnce(d) == IsSwitch(d) /\ ~flagDryRun /\ ~prev.mutated

\* Faulty variant of CallsSwitcher: the dry-run flag is not consulted.
CallsSwitcherInDryRun(d) == IsSwitch(d)

\* doCheckOnce 125 and 137: a switch branch calls the switcher unless dry-run.
CallsSwitcher(d) == IsSwitch(d) /\ ~flagDryRun

Decide ==
    /\ pc = "decide"
    /\ LET d == Decision(probe = "ok", currentGateway)
       IN /\ decision' = d
          /\ IF CallsSwitcher(d)
             THEN switched' = Append(switched, SwitchArgs(d)) /\ pc' = "del"
             ELSE UNCHANGED switched /\ pc' = "return"
    /\ err' = "nil"
    /\ UNCHANGED <<config, resolver, resolved, signals, tickC, routes, currentGateway, probe,
                   calls, probed, cancelledAtStart, abandoned, degraded, prev, logged>>

(***************************************************************************)
(* Route Switcher: switchDefaultRoute, lines 152-166.                      *)
(***************************************************************************)

\* The netlink.Route built from an interface and a gateway.
Route(dev, gw) == <<dev.Index, gw>>

\* The invocation in progress.
args == switched[Len(switched)]

\* Faulty variant of AfterDelete: a failed delete ends the switch.
AfterDeleteStopOnError(delOK) == IF delOK THEN "add" ELSE "return"

\* switchDefaultRoute 158-161: where it goes after RouteDel returned.
AfterDelete(delOK) == "add"

\* Faulty variant of SwitchResult: a failed delete is reported too.
SwitchResultWithDelete(delOK, addOK) ==
    IF ~delOK THEN "route del" ELSE IF addOK THEN "nil" ELSE "route add"

\* Faulty variant of SwitchResult: the add's error is dropped as well.
SwitchResultAlwaysNil(delOK, addOK) == "nil"

\* switchDefaultRoute 161: the value returned, from both calls' results.
SwitchResult(delOK, addOK) == IF addOK THEN "nil" ELSE "route add"

\* netlink.RouteDel: succeeds only for a route the table holds, and may
\* fail for one it holds.
RouteDel ==
    /\ pc = "del"
    /\ LET r == Route(args.oldDev, args.oldGw)
       IN \E ok \in (IF r \in routes THEN BOOLEAN ELSE {FALSE}) :
             /\ routes' = IF ok THEN routes \ {r} ELSE routes
             /\ calls' = Append(calls, [op |-> "del", route |-> r, ok |-> ok])
             /\ pc' = AfterDelete(ok)
             /\ err' = IF AfterDelete(ok) = "add" THEN "nil" ELSE "route del"
    /\ UNCHANGED <<config, resolver, resolved, signals, tickC, currentGateway, probe, decision,
                   switched, probed, cancelledAtStart, abandoned, degraded, prev, logged>>

\* netlink.RouteAdd: fails for a route the table already holds, and may
\* fail for any other.
RouteAdd ==
    /\ pc = "add"
    /\ LET r == Route(args.newDev, args.newGw)
       IN \E ok \in (IF r \in routes THEN {FALSE} ELSE BOOLEAN) :
             /\ routes' = IF ok THEN routes \cup {r} ELSE routes
             /\ calls' = Append(calls, [op |-> "add", route |-> r, ok |-> ok])
             /\ err' = SwitchResult(calls[Len(calls)].ok, ok)
             /\ degraded' = (~ok /\ calls[Len(calls)].ok /\ routes = {})
    /\ pc' = "return"
    /\ UNCHANGED <<config, resolver, resolved, signals, tickC, currentGateway, probe, decision,
                   switched, probed, cancelledAtStart, abandoned, prev, logged>>

(***************************************************************************)
(* The specification.                                                      *)
(***************************************************************************)

doCheckOnce ==
    \/ Inspect
    \/ ProbeStart
    \/ ProbeExit
    \/ Decide
    \/ RouteDel
    \/ RouteAdd

Next ==
    \/ CheckFlags
    \/ LookupPrimary
    \/ LookupBackup
    \/ ResolveGateways
    \/ Setup
    \/ Signal
    \/ Cancel
    \/ Tick
    \/ ExternalChange
    \/ SelectDone
    \/ SelectTick
    \/ Return
    \/ Inspect
    \/ ProbeStart
    \/ ProbeExit
    \/ Decide
    \/ RouteDel
    \/ RouteAdd

Spec == Init /\ [][Next]_vars

\* The program as the only writer of the routing table, started on a host
\* that has a default route.
SoleWriterInit == Init /\ routes # {}

SoleWriterNext ==
    \/ CheckFlags
    \/ LookupPrimary
    \/ LookupBackup
    \/ ResolveGateways
    \/ Setup
    \/ Signal
    \/ Cancel
    \/ Tick
    \/ SelectDone
    \/ SelectTick
    \/ Return
    \/ Inspect
    \/ ProbeStart
    \/ ProbeExit
    \/ Decide
    \/ RouteDel
    \/ RouteAdd

SoleWriterSpec == SoleWriterInit /\ [][SoleWriterNext]_vars

(***************************************************************************)
(* The Gateway Resolver on its own: one call of parseOrGetGateway, or of   *)
(* the lease-file backend, on a drawn explicit value, a drawn pair of      *)
(* backend flags and a drawn source text.  The program does not run.       *)
(***************************************************************************)

program == <<pc, config, resolved, signals, tickC, routes, cycle, prev, degraded, logged>>

ResolverInit ==
    /\ pc = "start"
    /\ flagDryRun = FALSE
    /\ flagPrimaryInterface = "eth0"
    /\ flagBackupInterface = "wwan0"
    /\ primary = NoIface
    /\ backup = NoIface
    /\ primaryGw = NoAddr
    /\ backupGw = NoAddr
    /\ ctxDone = FALSE
    /\ sigCh = 0
    /\ sigPc = "none"
    /\ tickC = 0
    /\ routes = {}
    /\ currentGateway = ""
    /\ probe = "none"
    /\ err = "nil"
    /\ decision = "none"
    /\ switched = <<>>
    /\ calls = <<>>
    /\ probed = <<>>
    /\ degraded = FALSE
    /\ cancelledAtStart = FALSE
    /\ abandoned = FALSE
    /\ prev = NoCycle
    /\ logged = ""
    /\ \E val \in GatewayFlagValues, networkd \in BOOLEAN, dhcpcd \in BOOLEAN,
          source \in Sources :
          resolver = [step |-> "input", val |-> val, networkd |-> networkd,
                      dhcpcd |-> dhcpcd, source |-> source]

\* main 63 or 69: parseOrGetGateway(val, iface) is called and returns.
CallParseOrGetGateway ==
    /\ resolver.step = "input"
    /\ resolver' =
          [step |-> "parseOrGetGateway", val |-> resolver.val,
           networkd |-> resolver.networkd, dhcpcd |-> resolver.dhcpcd,
           source |-> resolver.source,
           result |-> parseOrGetGateway(
                          resolver.val, resolver.networkd, resolver.dhcpcd,
                          Detect(resolver.networkd, resolver.dhcpcd, resolver.source))]
    /\ UNCHANGED program

\* getGateway 205-206: getGatewaySystemdNetworkd(iface) is called and returns.
CallGetGatewaySystemdNetworkd ==
    /\ resolver.step = "input"
    /\ resolver' =
          [step |-> "getGatewaySystemdNetworkd", val |-> resolver.val,
           networkd |-> resolver.networkd, dhcpcd |-> resolver.dhcpcd,
           source |-> resolver.source,
           result |-> getGatewaySystemdNetworkd(resolver.source)]
    /\ UNCHANGED program

ResolverNext ==
    \/ CallParseOrGetGateway
    \/ CallGetGatewaySystemdNetworkd

ResolverSpec == ResolverInit /\ [][ResolverNext]_vars

\* The same program, observed across cycles: each cycle's observation is
\* kept in prev until the next one returns.
HistoryNext ==
    \/ CheckFlags
    \/ LookupPrimary
    \/ LookupBackup
    \/ ResolveGateways
    \/ Setup
    \/ Signal
    \/ Cancel
    \/ Tick
    \/ ExternalChange
    \/ SelectDone
    \/ SelectTick
    \/ ReturnObserved
    \/ Inspect
    \/ ProbeStart
    \/ ProbeExit
    \/ Decide
    \/ RouteDel
    \/ RouteAdd

HistorySpec == Init /\ [][HistoryNext]_vars

(***************************************************************************)
(* Fairness: the Go scheduler runs the signal goroutine and the main       *)
(* goroutine, every call of a cycle returns (ping -c1 exits or is killed), *)
(* and select picks at random among its ready cases, so a case that is     *)
(* ready again and again is eventually taken.                              *)
(***************************************************************************)

FairSpec ==
    /\ Spec
    /\ WF_vars(Cancel)
    /\ WF_vars(doCheckOnce)
    /\ WF_vars(Return)
    /\ SF_vars(SelectDone)

(***************************************************************************)
(* Properties of a check cycle.  A cycle's record is complete when         *)
(* doCheckOnce has returned, at pc = "return".                             *)
(***************************************************************************)

ToBackup ==
    [oldDev |-> primary, oldGw |-> primaryGw, newDev |-> backup, newGw |-> backupGw]
ToPrimary ==
    [oldDev |-> backup, oldGw |-> backupGw, newDev |-> primary, newGw |-> primaryGw]

Decided == pc \in {"del", "add", "return"} /\ probe # "none"

\* C1: with dry-run off, a cycle in which the inspector reports the primary
\* interface and the probe fails invokes the switcher exactly once, with
\* old = (primary, primary gateway) and new = (backup, backup gateway).
C1_FailoverToBackup ==
    (Decided /\ ~flagDryRun /\ currentGateway = primary.Name /\ probe = "fail")
        => switched = <<ToBackup>>

C1_Witness ==
    /\ pc = "return"
    /\ ~flagDryRun
    /\ currentGateway = primary.Name
    /\ probe = "fail"
    /\ switched = <<ToBackup>>
    /\ primaryGw # backupGw

\* C2: with dry-run off, every cycle in which the probe succeeds and the
\* inspector reports the backup interface issues exactly one switch call
\* (backup -> primary); a cycle in which the probe succeeds and the
\* inspector reports the primary interface issues none.
C2_FailbackUntilPrimary ==
    /\ (Decided /\ ~flagDryRun /\ probe = "ok" /\ currentGateway = backup.Name)
          => switched = <<ToPrimary>>
    /\ (Decided /\ probe = "ok" /\ currentGateway = primary.Name)
          => switched = <<>>

C2_Witness ==
    /\ pc = "return"
    /\ ~flagDryRun
    /\ probe = "ok"
    /\ currentGateway = backup.Name
    /\ switched = <<ToPrimary>>
    /\ Len(calls) = 2
    /\ calls[2].ok

\* C3: a cycle issues a route delete or add only if the probe succeeded
\* with the backup active or failed with the primary active; in every other
\* decided case (primary active and probe ok, backup active and probe
\* failed, a third interface active) it issues nothing and returns no error.
SwitchCase ==
    \/ probe = "ok" /\ currentGateway = backup.Name
    \/ probe = "fail" /\ currentGateway = primary.Name

C3_MutationOnlyOnDisagreement ==
    /\ (calls # <<>> \/ switched # <<>> \/ pc \in {"del", "add"}) => SwitchCase
    /\ (Decided /\ ~SwitchCase) => (pc = "return" /\ calls = <<>> /\ err = "nil")

C3_Witness ==
    /\ pc = "return"
    /\ ~flagDryRun
    /\ probe = "ok"
    /\ currentGateway = "tun0"
    /\ calls = <<>>
    /\ err = "nil"

\* C4: with dry-run on, no cycle issues a route delete or add, and the
\* decision of every cycle is the one the same inspector result and probe
\* outcome give with dry-run off: a function of those two alone.
DecisionTable(cur, outcome) ==
    CASE outcome = "ok" /\ cur = backup.Name -> "backup -> primary"
      [] outcome = "ok" /\ cur # backup.Name -> "on primary"
      [] outcome = "fail" /\ cur = primary.Name -> "primary -> backup"
      [] outcome = "fail" /\ cur # primary.Name -> "on backup"

C4_DryRunSameDecisionNoMutation ==
    /\ flagDryRun => (calls = <<>> /\ switched = <<>> /\ pc \notin {"del", "add"})
    /\ Decided => decision = DecisionTable(currentGateway, probe)

C4_Witness ==
    /\ pc = "return"
    /\ flagDryRun
    /\ decision = "primary -> backup"
    /\ calls = <<>>
    /\ err = "nil"

\* C5: every switcher invocation issues the delete of the old (index,
\* gateway) route first and then the add of the new one; the add is issued
\* also when the delete failed.
C5_DeleteThenAdd ==
    /\ Len(switched) <= 1
    /\ switched = <<>> => calls = <<>>
    /\ pc = "del" => calls = <<>>
    /\ (switched # <<>> /\ pc # "del") =>
          /\ calls[1].op = "del"
          /\ calls[1].route = <<switched[1].oldDev.Index, switched[1].oldGw>>
    /\ (switched # <<>> /\ pc = "add") => Len(calls) = 1
    /\ (switched # <<>> /\ pc = "return") =>
          /\ Len(calls) = 2
          /\ calls[2].op = "add"
          /\ calls[2].route = <<switched[1].newDev.Index, switched[1].newGw>>

C5_Witness ==
    /\ pc = "return"
    /\ Len(calls) = 2
    /\ calls[1].op = "del"
    /\ ~calls[1].ok
    /\ calls[2].op = "add"

\* C6: a switch, and the cycle around it, reports exactly the outcome of
\* the add: no error when the add succeeded, whether or not the delete
\* failed, and the add's error when the add failed.
C6_ResultIsAddOutcome ==
    (pc = "return" /\ switched # <<>>) =>
        /\ calls # <<>>
        /\ calls[Len(calls)].op = "add"
        /\ err = IF calls[Len(calls)].ok THEN "nil" ELSE "route add"

C6_Witness ==
    /\ pc = "return"
    /\ Len(calls) = 2
    /\ ~calls[1].ok
    /\ calls[2].ok
    /\ err = "nil"

(***************************************************************************)
(* Properties of the loop: degraded tables, inspector errors, shutdown.    *)
(***************************************************************************)

InCycle == pc \in {"inspect", "run", "ping", "decide", "del", "add", "return"}

InspectErrors == {"route get", "no routes", "looking up link index"}

\* C7: after a switch whose delete succeeded and whose add failed left the
\* table without a default route, the loop attempts a switch again on later
\* ticks: every cycle that completes, uncancelled, while the table is still
\* in that state has issued a route add.
C7_RetriesAfterFailedAdd ==
    (pc = "return" /\ degraded /\ ~ctxDone) =>
        \E i \in DOMAIN calls : calls[i].op = "add"

\* C8: when the Route Inspector fails, the cycle is abandoned: doCheckOnce
\* returns the error at once, no probe is started and no route delete or
\* add is issued; main logs the error and goes back to its select, where
\* the next tick starts a fresh check.
C8_InspectorErrorAbandonsCycle ==
    [][ /\ (pc = "inspect" /\ err' # "nil") =>
              /\ pc' = "return"
              /\ err' \in InspectErrors
              /\ routes' = routes
        /\ (pc = "return" /\ err \in InspectErrors) =>
              /\ probed = <<>>
              /\ probe = "none"
              /\ calls = <<>>
              /\ switched = <<>>
              /\ pc' # pc => (pc' = "select" /\ logged' = "error checking")
        /\ (pc = "select" /\ logged = "error checking" /\ tickC = 1 /\ pc' = "inspect") =>
              (probe' = "none" /\ err' = "nil" /\ calls' = <<>>)
      ]_vars

C8_Witness ==
    /\ pc = "return"
    /\ err = "looking up link index"
    /\ routes # {}
    /\ probed = <<>>
    /\ calls = <<>>
    /\ ~ctxDone

\* C9: once a termination signal has been delivered, the main loop
\* eventually reaches its "finished" exit.
C9_SignalLeadsToExit ==
    (sigCh = 1 \/ ctxDone) ~> (pc = "finished" /\ logged = "finished")

C9_Witness ==
    /\ pc = "finished"
    /\ logged = "finished"
    /\ ctxDone
    /\ sigPc = "done"

\* C10: once the context is cancelled no new check cycle is started: no
\* cycle is ever running that began with the context already cancelled.
C10_NoCycleAfterCancel ==
    InCycle => ~cancelledAtStart

\* C11: at most one check cycle is in flight.  A cycle starts only from
\* the select, with nothing of an earlier cycle still running; a tick that
\* fires during a cycle is buffered (at most one) and leaves the cycle as it
\* is; no cycle holds more than one probe or one switch.
C11_OneCycleAtATime ==
    [](tickC \in {0, 1} /\ Len(probed) <= 1 /\ Len(switched) <= 1 /\ Len(calls) <= 2)
    /\
    [][ /\ (pc' = "inspect" /\ pc # "inspect") =>
              /\ pc = "select"
              /\ tickC = 1
              /\ tickC' = 0
              /\ probe = "none"
              /\ probed = <<>>
              /\ calls = <<>>
        /\ (InCycle /\ tickC' # tickC) =>
              /\ tickC' = 1
              /\ pc' = pc
              /\ UNCHANGED <<cycle, routes, prev>>
      ]_vars

C11_Witness ==
    /\ pc = "ping"
    /\ tickC = 1
    /\ probed = <<primary.Name>>
    /\ sigCh = 1


\* The cycle that is returning decided on the same inspector result and the
\* same probe outcome as the cycle before it.
SameObservation ==
    /\ pc = "return"
    /\ probe # "none"
    /\ prev # NoCycle
    /\ prev.cur = currentGateway
    /\ prev.probe = probe

\* C12 as stated: two consecutive cycles that observe the same probe outcome
\* and the same active route issue no route delete and no route add.
C12_SameObservationNoMutation ==
    SameObservation => (calls = <<>> /\ ~prev.mutated)

\* C12, amended: two consecutive cycles that observe the same probe outcome
\* and the same active route take the same decision and treat the table the
\* same way: neither issues a route call when the observation is not a
\* switch case or dry-run is on, and otherwise each of them invokes the
\* switcher once (a delete and then an add).
C12_SameObservationSameAction ==
    SameObservation =>
        /\ decision = DecisionTable(prev.cur, prev.probe)
        /\ (calls # <<>>) = prev.mutated
        /\ (calls = <<>>) <=> (~SwitchCase \/ flagDryRun)
        /\ (calls # <<>>) =>
              /\ Len(switched) = 1
              /\ Len(calls) = 2
              /\ calls[1].op = "del"
              /\ calls[2].op = "add"

C12_Witness ==
    /\ SameObservation
    /\ probe = "fail"
    /\ currentGateway = primary.Name
    /\ prev.mutated
    /\ Len(calls) = 2


ActionTable(cur, outcome) ==
    IF flagDryRun THEN <<>>
    ELSE IF outcome = "ok" /\ cur = backup.Name THEN <<ToPrimary>>
    ELSE IF outcome = "fail" /\ cur = primary.Name THEN <<ToBackup>>
    ELSE <<>>

\* C14: nothing of a cycle survives into the next one.  A cycle starts with
\* no route name, no probe outcome and no decision; the name it decides on
\* is the interface of a route the table holds when the inspector runs; and
\* its decision and its switcher invocation are given by that name, its own
\* probe outcome and the configuration alone, whatever the cycle before
\* observed or did.
C14_DecisionFromFreshObservation ==
    [](/\ pc = "inspect" =>
            (currentGateway = "" /\ probe = "none" /\ decision = "none"
               /\ switched = <<>> /\ calls = <<>>)
       /\ Decided => decision = DecisionTable(currentGateway, probe)
       /\ (pc = "return" /\ probe # "none") =>
            switched = ActionTable(currentGateway, probe))
    /\
    [][ (pc = "inspect" /\ pc' = "run") =>
            \E r \in routes : currentGateway' = InterfaceByIndex(r[1]).Name
      ]_vars

C14_Witness ==
    /\ pc = "return"
    /\ prev = [cur |-> primary.Name, probe |-> "ok", mutated |-> FALSE]
    /\ probe = "ok"
    /\ currentGateway = backup.Name
    /\ decision = "backup -> primary"
    /\ switched = <<ToPrimary>>


Startup == {"start", "lookupPrimary", "lookupBackup", "resolve"}

\* What main has established when it reaches the code after line 73.
StartupComplete ==
    /\ flagPrimaryInterface # ""
    /\ flagBackupInterface # ""
    /\ primary \in Interfaces /\ primary.Name = flagPrimaryInterface
    /\ backup \in Interfaces /\ backup.Name = flagBackupInterface
    /\ primaryGw \in Addrs
    /\ backupGw \in Addrs

\* The step of main 44-73 that fails first, given what the steps before it
\* left behind, for each fatal message.
FirstFailure(msg) ==
    CASE msg = "no primary interface provided" -> flagPrimaryInterface = ""
      [] msg = "no backup interface provided" ->
            flagPrimaryInterface # "" /\ flagBackupInterface = ""
      [] msg = "error getting primary interface" ->
            /\ flagPrimaryInterface # "" /\ flagBackupInterface # ""
            /\ ~InterfaceByName(flagPrimaryInterface).ok
      [] msg = "error getting backup interface" ->
            /\ flagPrimaryInterface # "" /\ flagBackupInterface # ""
            /\ primary \in Interfaces
            /\ ~InterfaceByName(flagBackupInterface).ok
      [] msg = "error detecting primary gateway" ->
            /\ primary \in Interfaces /\ backup \in Interfaces
            /\ primaryGw = NoAddr
      [] msg = "error detecting backup gateway" ->
            /\ primary \in Interfaces /\ backup \in Interfaces
            /\ primaryGw \in Addrs /\ backupGw = NoAddr
      [] OTHER -> FALSE

\* C15: the loop is reached only with both names given, both interfaces
\* found and both gateways resolved; until then, and after a fatal startup
\* error, no cycle has run, no probe was started, no route call was issued,
\* and neither the signal goroutine nor the ticker exists; a fatal exit
\* reports the first step of main that failed, and no later step has run.
C15_StartupErrorsAreFatal ==
    /\ pc \notin (Startup \cup {"fatal"}) => StartupComplete
    /\ pc \in (Startup \cup {"setup", "fatal"}) =>
          /\ probe = "none" /\ probed = <<>> /\ decision = "none"
          /\ calls = <<>> /\ switched = <<>> /\ currentGateway = ""
          /\ sigPc = "none" /\ tickC = 0 /\ ~ctxDone
    /\ pc = "fatal" => (FirstFailure(logged) /\ ~StartupComplete)
    /\ (pc \notin {"start", "fatal"}) =>
          (flagPrimaryInterface # "" /\ flagBackupInterface # "")
    /\ (pc \notin {"start", "lookupPrimary", "fatal"}) => primary \in Interfaces
    /\ (pc \notin {"start", "lookupPrimary", "lookupBackup", "fatal"}) =>
          backup \in Interfaces

C15_Witness ==
    /\ pc = "fatal"
    /\ logged = "error detecting backup gateway"
    /\ primaryGw \in Addrs
    /\ backupGw = NoAddr


\* The IP literals among the explicit values, with the address each denotes.
Literal(val) ==
    CASE val = "10.0.0.1" -> <<10, 0, 0, 1>>
      [] val = "10.0.1.1" -> <<10, 0, 1, 1>>
      [] OTHER -> NoAddr

\* C16: called with a non-empty explicit string that is an IP literal,
\* parseOrGetGateway returns that address and calls no backend; called with
\* an empty or unparsable string it calls getGateway, whose result is the
\* selected backend's, and which fails without calling a backend when
\* neither backend flag is set.
C16_ExplicitValueOrAutodetect ==
    resolver.step = "parseOrGetGateway" =>
        LET r == resolver.result
            explicit == resolver.val # "" /\ Literal(resolver.val) # NoAddr
        IN /\ explicit =>
                /\ r.ok
                /\ r.addr = Literal(resolver.val)
                /\ ~r.autodetect
                /\ r.backend = "none"
           /\ ~explicit =>
                /\ r.autodetect
                /\ (~resolver.networkd /\ ~resolver.dhcpcd) =>
                      (~r.ok /\ r.addr = NoAddr /\ r.backend = "none")
                /\ resolver.networkd =>
                      /\ r.backend = "systemd-networkd"
                      /\ r.ok = getGatewaySystemdNetworkd(resolver.source).ok
                      /\ r.addr = getGatewaySystemdNetworkd(resolver.source).addr
                /\ (~resolver.networkd /\ resolver.dhcpcd) =>
                      /\ r.backend = "dhcpcd"
                      /\ r.ok = getGatewayDhcpcd(resolver.source).ok
                      /\ r.addr = getGatewayDhcpcd(resolver.source).addr

C16_Witness ==
    /\ resolver.step = "parseOrGetGateway"
    /\ resolver.val = "10.0.1.1"
    /\ resolver.networkd
    /\ resolver.source.readable
    /\ resolver.source.lines = << <<"ROUTER", "=", "10.0.0.1">> >>
    /\ resolver.result.addr = <<10, 0, 1, 1>>
    /\ ~resolver.result.autodetect

\* The first '=' of a line, the key before it and the value after it.
FirstEq(line) ==
    CHOOSE i \in 1..Len(line) :
        line[i] = "=" /\ \A j \in 1..(i - 1) : line[j] # "="
KeyOf(line) == Join(SubSeq(line, 1, FirstEq(line) - 1))
ValueOf(line) == Join(SubSeq(line, FirstEq(line) + 1, Len(line)))

\* The lines of a lease file that name the router: not a comment, with an
\* '=', and with the key ROUTER.
RouterLines(lines) ==
    { i \in 1..Len(lines) :
        /\ ~(Len(lines[i]) > 0 /\ lines[i][1] = "#")
        /\ \E k \in 1..Len(lines[i]) : lines[i][k] = "="
        /\ KeyOf(lines[i]) = "ROUTER" }

\* C17: on a lease file that opens, getGatewaySystemdNetworkd returns what
\* the value of the first router line parses to (an address when the value
\* is an IP literal, a parse error otherwise), whatever comment lines, lines
\* without '=' and lines with other keys stand before it and whatever
\* follows it; with no router line in the file it fails with "ROUTER not
\* found in lease file".
C17_FirstRouterLine ==
    (resolver.step = "getGatewaySystemdNetworkd" /\ resolver.source.readable) =>
        LET r == resolver.result
            lines == resolver.source.lines
            found == RouterLines(lines)
        IN IF found = {}
           THEN ~r.ok /\ r.addr = NoAddr /\ r.err = "ROUTER not found in lease file"
           ELSE LET first == CHOOSE i \in found : \A j \in found : i <= j
                    value == ValueOf(lines[first])
                IN IF Literal(value) # NoAddr
                   THEN r.ok /\ r.addr = Literal(value) /\ r.err = "nil"
                   ELSE ~r.ok /\ r.addr = NoAddr /\ r.err = "ParseAddr"

C17_Witness ==
    /\ resolver.step = "getGatewaySystemdNetworkd"
    /\ resolver.source.readable
    /\ resolver.source.lines =
          << <<"#", "ROUTER", "=", "10.0.0.1">>,
             <<"DNS", "=", "10.0.1.1">>,
             <<"ROUTER", "=", "10.0.1.1">> >>
    /\ resolver.result.ok
    /\ resolver.result.addr = <<10, 0, 1, 1>>


\* C18: a cycle whose probe ended because ctx was cancelled, or that began
\* with ctx already cancelled, invokes no switch and issues no route delete
\* or add.
C18_CancelledProbeMutatesNothing ==
    (abandoned \/ cancelledAtStart) => (switched = <<>> /\ calls = <<>>)


\* C19: with the program as the only writer of a table that held a default
\* route when it started, the table is without a default route outside a
\* switch only when the add of the most recent switch failed after its
\* delete had removed the last route; and a switch that returned nil has
\* left the route through the new interface and gateway in the table.
C19_EmptyTableOnlyAfterFailedAdd ==
    /\ (pc \notin {"del", "add"} /\ routes = {}) => degraded
    /\ (pc = "return" /\ calls # <<>> /\ routes = {}) =>
          /\ Len(calls) = 2
          /\ calls[1].op = "del" /\ calls[1].ok
          /\ calls[2].op = "add" /\ ~calls[2].ok
          /\ err = "route add"
    /\ (pc = "return" /\ switched # <<>> /\ err = "nil") =>
          /\ Route(args.newDev, args.newGw) \in routes
          /\ calls[Len(calls)] = [op |-> "add", route |-> Route(args.newDev, args.newGw), ok |-> TRUE]

C19_Witness ==
    /\ pc = "return"
    /\ routes = {}
    /\ degraded
    /\ Len(calls) = 2
    /\ calls[1].ok
    /\ ~calls[2].ok
    /\ calls[1].route = Route(primary, primaryGw)


\* The two uplinks as routes: each interface index with its own gateway.
PrimaryRoute == <<primary.Index, primaryGw>>
BackupRoute == <<backup.Index, backupGw>>

====
